---- MODULE Spec2Model ----
(***************************************************************************)
(* Model of the demo-day evaluation backend (server/app.js): the JSON      *)
(* document store, the login/logout routes, the session/jury/student CRUD  *)
(* routes and the evaluation submit / results routes.                      *)
(*                                                                         *)
(* Encoding of JavaScript values:                                          *)
(*   - an opaque string is a TLA+ string; a field that is absent from a    *)
(*     request body (JS undefined) is the value Undefined;                 *)
(*   - a session id (a uuid string) is a positive integer: ids are only    *)
(*     compared for equality, so the n-th uuid returned is named n, and 0  *)
(*     is an id uuidv4 never returns;                                      *)
(*   - a score field of a request body is a sequence of characters, so     *)
(*     that parseFloat is computed and not assumed;                        *)
(*   - a JS number is a record [t |-> "num", n, d] (the rational n/d),     *)
(*     NaN is [t |-> "NaN"] and JSON null is [t |-> "null"].               *)
(* Every route handler is synchronous JavaScript (no await, no callback    *)
(* between its first and last statement), so a handler is one action.      *)
(***************************************************************************)
EXTENDS Integers, Sequences, FiniteSets, TLC

\* ------------------------------------------------------------------ bounds
\* The bounds restrict the requests the environment issues (they are guards of
\* the specifications, never of a handler).
\* Number of sessions created in a run.
MaxIds == 2
\* Longest juries / students list a session is grown to.
MaxListLen == 1
\* Most submissions the store is grown to.
MaxSubmissions == 1
\* Most storage write failures in a row.
MaxWriteFailures == 1
\* Most submissions the store is grown to under SpecEval.
MaxEvalSubmissions == 3
\* Most sessions created, and the longest list a session is grown to, under SpecLists.
MaxListSessions == 1
MaxNames == 3
\* Most students of a session, and most submissions, under SpecGroups.
MaxGroupStudents == 2
MaxGroupSubmissions == 3

\* ------------------------------------------------------------ input values
Undefined == "undefined"

\* Browser clients (one cookie jar, hence one express-session, each).
Clients == {"c1", "c2"}

\* validUsernames of POST /api/login.
validUsernames ==
    {"Bordeaux", "Dijon", "Fréjus", "Laval", "Lille", "Paris", "Rennes", "Thonon", "Toulouse"}

\* The password POST /api/login compares with.
validPassword == "demo"

\* Usernames and passwords the clients try.
UsernameInputs == {"Toulouse", "Paris", "fakeUser"}
AllUsernameInputs == validUsernames \cup {"fakeUser", "toulouse", "", Undefined}
PasswordInputs == {"demo", "badPass"}
AllPasswordInputs == {"demo", "badPass", "Demo", "", Undefined}

\* Names the clients send.
SessionNameInputs == {"C#22", "", Undefined}
JuryNameInputs == {"Hugo", "", Undefined}
StudentNameInputs == {"Fabien", "", Undefined}
\* Names put on and taken off the lists under SpecLists.
ListNameInputs == {"Hugo", "Fabien"}


\* The 18 numeric criteria of a submission.
Criteria ==
    {"introductionTeam", "projectInspiration", "technologyArchitecture", "algorithmsCode",
     "processCollaboration", "challengesFaced", "technicalLearnings", "audibles", "clarity",
     "fewFillerWords", "stagePosition", "confidentPosture", "professionalAttire",
     "timeManagement", "energy", "audienceInteraction", "projectFunctionality",
     "questionsAnswers"}

\* ------------------------------------------------------------ JS primitives
\* Only an absent field is refused, an empty string passes.
FalsyMut(v) == v = Undefined

\* !v for the values a body field takes here: undefined and "" are falsy.
Falsy(v) == v \in {Undefined, ""}

Digits == {"0", "1", "2", "3", "4", "5", "6", "7", "8", "9"}

DigitValue(ch) ==
    CASE ch = "0" -> 0 [] ch = "1" -> 1 [] ch = "2" -> 2 [] ch = "3" -> 3 [] ch = "4" -> 4
      [] ch = "5" -> 5 [] ch = "6" -> 6 [] ch = "7" -> 7 [] ch = "8" -> 8 [] ch = "9" -> 9

RECURSIVE Gcd(_, _)
Gcd(a, b) == IF b = 0 THEN a ELSE Gcd(b, a % b)

Abs(x) == IF x < 0 THEN -x ELSE x

NaN == [t |-> "NaN", n |-> 0, d |-> 1]
Null == [t |-> "null", n |-> 0, d |-> 1]
\* The number n/d (d > 0), in lowest terms.
Num(n, d) ==
    LET g == Gcd(Abs(n), d) IN [t |-> "num", n |-> n \div g, d |-> d \div g]

\* Length of the longest prefix of s made of digits.
RECURSIVE DigitRun(_)
DigitRun(s) ==
    IF s = <<>> \/ Head(s) \notin Digits THEN 0 ELSE 1 + DigitRun(Tail(s))

\* Value of a sequence of digits read as a decimal numeral.
RECURSIVE Decimal(_)
Decimal(s) ==
    IF s = <<>> THEN 0 ELSE 10 * Decimal(SubSeq(s, 1, Len(s) - 1)) + DigitValue(s[Len(s)])

RECURSIVE Pow10(_)
Pow10(k) == IF k = 0 THEN 1 ELSE 10 * Pow10(k - 1)

RECURSIVE SkipSpaces(_)
SkipSpaces(s) == IF s # <<>> /\ Head(s) = " " THEN SkipSpaces(Tail(s)) ELSE s

\* parseFloat on a character sequence: leading blanks are skipped, then an
\* optional sign, digits and an optional fraction are read; what follows is
\* ignored; NaN when no digit was read.  (Exponents and "Infinity" are not in
\* the input alphabet.)  An absent field is coerced to the text "undefined".
parseFloat(str) ==
    LET s0 == SkipSpaces(str)
        neg == s0 # <<>> /\ Head(s0) = "-"
        s1 == IF s0 # <<>> /\ Head(s0) \in {"-", "+"} THEN Tail(s0) ELSE s0
        ni == DigitRun(s1)
        ip == SubSeq(s1, 1, ni)
        r1 == SubSeq(s1, ni + 1, Len(s1))
        dot == r1 # <<>> /\ Head(r1) = "."
        nf == IF dot THEN DigitRun(Tail(r1)) ELSE 0
        fp == IF dot THEN SubSeq(Tail(r1), 1, nf) ELSE <<>>
        mag == Decimal(ip) * Pow10(nf) + Decimal(fp)
    IN  IF ni + nf = 0 THEN NaN
        ELSE Num(IF neg THEN -mag ELSE mag, Pow10(nf))

AbsentField == <<"u", "n", "d", "e", "f", "i", "n", "e", "d">>

\* Request bodies of POST /api/submitEvaluation: the 18 score fields and the comment.
PayloadNames == {"test", "fives"}

PayloadScores(p) ==
    IF p = "test"
    THEN [k \in Criteria |->
            IF k = "projectFunctionality" THEN AbsentField
            ELSE IF k \in {"technologyArchitecture", "algorithmsCode", "challengesFaced"}
                 THEN <<"5">>
            ELSE IF k = "processCollaboration" THEN <<"2">>
            ELSE <<"1">>]
    ELSE [k \in Criteria |-> <<"5">>]

PayloadComments(p) == IF p = "test" THEN "Well done!" ELSE Undefined

\* ------------------------------------------------------------------- state
VARIABLES
    dbData,     \* the in-memory document {sessions, submissions}
    disk,       \* the file at DB_PATH
    user,       \* req.session.user of each client's express-session
    running,    \* whether the server process is up
    issued,     \* how many ids uuidv4 has returned so far
    failures,   \* storage write failures since the last write that succeeded
    res         \* the last request and the response it got

vars == <<dbData, disk, user, running, issued, failures, res>>

EmptyDoc == [sessions |-> <<>>, submissions |-> <<>>]

NoFile == [state |-> "absent", doc |-> EmptyDoc]

\* req.session.user when no login has set it.
NoUser == [username |-> Undefined, campus |-> Undefined]

NoReq ==
    [id |-> 0, name |-> Undefined, juryName |-> Undefined, studentName |-> Undefined,
     username |-> Undefined, password |-> Undefined, payload |-> Undefined]

NoRes == [client |-> "none", op |-> "none", req |-> NoReq, status |-> 0, body |-> [error |-> "none"]]

\* --------------------------------------------------------- persistent store
\* JSON.stringify of a score: NaN is written as null.
StringifyScore(x) == IF x.t = "NaN" THEN Null ELSE x

\* JSON.stringify(dbData, null, 2): the JSON text, as the JSON value it denotes.
Stringify(db) ==
    [sessions |-> db.sessions,
     submissions |->
        [i \in 1..Len(db.submissions) |->
            [db.submissions[i] EXCEPT
                !.scores = [k \in Criteria |-> StringifyScore(db.submissions[i].scores[k])]]]]

\* JSON.parse of the file.
Parse(doc) == doc

\* What fs.writeFileSync leaves and whether it throws.
WriteOutcomes == {"ok", "EACCES", "ENOSPC"}

\* fs.writeFileSync(DB_PATH, text): "ok" replaces the file; "EACCES" throws
\* with the file untouched; "ENOSPC" throws after the file was truncated.
writeFileSync(d, doc, w) ==
    CASE w = "ok" -> [state |-> "file", doc |-> doc]
      [] w = "EACCES" -> d
      [] w = "ENOSPC" -> [state |-> "corrupt", doc |-> EmptyDoc]

\* saveDatabase(), called with the document db in memory.
saveDatabase(db, w) ==
    /\ disk' = writeFileSync(disk, Stringify(db), w)
    /\ failures' = IF w = "ok" THEN 0 ELSE failures + 1

\* ---------------------------------------------------------------- responses
Exchange(c, op, req, status, body) ==
    [client |-> c, op |-> op, req |-> req, status |-> status, body |-> body]

\* A response sent before any mutation: nothing but res changes.
Reply(c, op, req, status, body) ==
    /\ res' = Exchange(c, op, req, status, body)
    /\ UNCHANGED <<dbData, disk, user, running, issued, failures>>

\* The handler assigned db to dbData, called saveDatabase() and then answered
\* 200 with body; when the write throws, Express answers 500 instead.
Commit(c, op, req, db, body, w) ==
    /\ dbData' = db
    /\ saveDatabase(db, w)
    /\ res' = IF w = "ok" THEN Exchange(c, op, req, 200, body)
              ELSE Exchange(c, op, req, 500, [error |-> "Internal Server Error"])
    /\ UNCHANGED <<user, running>>

\* A write may fail while fewer than MaxWriteFailures writes failed in a row.
Writes == IF failures < MaxWriteFailures THEN WriteOutcomes ELSE {"ok"}

\* ------------------------------------------------------------ process life
Init ==
    /\ dbData = EmptyDoc
    /\ disk = NoFile
    /\ user = [c \in Clients |-> NoUser]
    /\ running = FALSE
    /\ issued = 0
    /\ failures = 0
    /\ res = NoRes

\* loadDatabase() at startup.  A throw (unparsable file, failed first write)
\* ends the process before it serves anything.
loadDatabase(w) ==
    IF disk.state = "absent"
    THEN /\ saveDatabase(EmptyDoc, w)
         /\ dbData' = EmptyDoc
         /\ running' = (w = "ok")
    ELSE /\ disk.state = "file"
         /\ dbData' = Parse(disk.doc)
         /\ running' = TRUE
         /\ UNCHANGED <<disk, failures>>

Start(writes) ==
    /\ ~running
    /\ \E w \in writes : loadDatabase(w)
    /\ res' = NoRes
    /\ UNCHANGED <<user, issued>>

\* The process dies: the module's variables and the in-memory session store go.
Crash ==
    /\ running
    /\ running' = FALSE
    /\ dbData' = EmptyDoc
    /\ user' = [c \in Clients |-> NoUser]
    /\ res' = NoRes
    /\ UNCHANGED <<disk, issued, failures>>

\* ------------------------------------------------------------ authentication
\* Without the identity test: every request passes.
isAuthenticatedMut(c) == TRUE

isAuthenticated(c) == user[c] # NoUser

Unauthorized == [error |-> "Unauthorized"]

Credentials(u, p) == [NoReq EXCEPT !.username = u, !.password = p]

\* The password is not compared.
LoginOkMut(username, password) == username \in validUsernames

LoginOk(username, password) == username \in validUsernames /\ password = validPassword

\* A failed attempt ends the client's session.
LoginMut(c, username, password) ==
    /\ running
    /\ IF LoginOk(username, password)
       THEN /\ user' = [user EXCEPT ![c] = [username |-> username, campus |-> username]]
            /\ res' = Exchange(c, "login", Credentials(username, password), 200,
                        [success |-> TRUE, message |-> "Logged in successfully!",
                         campus |-> username])
       ELSE /\ user' = [user EXCEPT ![c] = NoUser]
            /\ res' = Exchange(c, "login", Credentials(username, password), 200,
                        [success |-> FALSE, message |-> "Invalid credentials.",
                         campus |-> Undefined])
    /\ UNCHANGED <<dbData, disk, running, issued, failures>>

\* POST /api/login
Login(c, username, password) ==
    /\ running
    /\ IF LoginOk(username, password)
       THEN /\ user' = [user EXCEPT ![c] = [username |-> username, campus |-> username]]
            /\ res' = Exchange(c, "login", Credentials(username, password), 200,
                        [success |-> TRUE, message |-> "Logged in successfully!",
                         campus |-> username])
       ELSE /\ user' = user
            /\ res' = Exchange(c, "login", Credentials(username, password), 200,
                        [success |-> FALSE, message |-> "Invalid credentials.",
                         campus |-> Undefined])
    /\ UNCHANGED <<dbData, disk, running, issued, failures>>

\* The session is kept.
destroyMut(c) == user

\* req.session.destroy(): the client's session leaves the session store; its
\* next request opens a fresh session, which has no user.
destroy(c) == [user EXCEPT ![c] = NoUser]

\* GET /api/logout; err is what the session store reports.
Logout(c, err) ==
    /\ running
    /\ IF err
       THEN /\ user' = user
            /\ res' = Exchange(c, "logout", NoReq, 500,
                        [error |-> "Could not log out. Please try again."])
       ELSE /\ user' = destroy(c)
            /\ res' = Exchange(c, "logout", NoReq, 302, [location |-> "/"])
    /\ UNCHANGED <<dbData, disk, running, issued, failures>>

\* GET /api/checkSession
CheckSession(c) ==
    /\ running
    /\ IF user[c] # NoUser
       THEN Reply(c, "checkSession", NoReq, 200, [loggedIn |-> TRUE, campus |-> user[c].campus])
       ELSE Reply(c, "checkSession", NoReq, 200, [loggedIn |-> FALSE, campus |-> "null"])

\* ----------------------------------------------------------------- sessions
\* Without the filter: every session is returned.
CampusSessionsMut(db, campus) == db.sessions

\* dbData.sessions.filter((s) => s.campus === campus)
CampusSessions(db, campus) == SelectSeq(db.sessions, LAMBDA s : s.campus = campus)

\* GET /api/sessions
ListSessions(c) ==
    /\ running
    /\ IF ~isAuthenticated(c) THEN Reply(c, "list", NoReq, 401, Unauthorized)
       ELSE Reply(c, "list", NoReq, 200, [sessions |-> CampusSessions(dbData, user[c].campus)])

\* uuidv4(): an id never returned before.
uuidv4 == issued + 1

\* A constant in place of the fresh id.
NewSessionMut(id, name, campus) ==
    [id |-> 1, name |-> name, campus |-> campus, juries |-> <<>>, students |-> <<>>]

NewSession(id, name, campus) ==
    [id |-> id, name |-> name, campus |-> campus, juries |-> <<>>, students |-> <<>>]

\* POST /api/sessions
CreateSession(c, name, w) ==
    LET req == [NoReq EXCEPT !.name = name] IN
    /\ running
    /\ IF ~isAuthenticated(c)
       THEN Reply(c, "create", req, 401, Unauthorized)
       ELSE IF Falsy(name)
       THEN Reply(c, "create", req, 400, [error |-> "Session name is required."])
       ELSE LET newSession == NewSession(uuidv4, name, user[c].campus) IN
              /\ issued' = issued + 1
              /\ Commit(c, "create", req,
                        [dbData EXCEPT !.sessions = Append(@, newSession)],
                        [message |-> "Session created successfully!",
                         session |-> newSession], w)

\* An unknown id finds the last session.
findIndexMut(sessions, sessionId) ==
    IF \E i \in 1..Len(sessions) : sessions[i].id = sessionId
    THEN CHOOSE i \in 1..Len(sessions) : sessions[i].id = sessionId
    ELSE Len(sessions)

\* dbData.sessions.findIndex((s) => s.id === sessionId): the first index whose
\* session has that id, 0 when there is none (JS: -1).
findIndex(sessions, sessionId) ==
    IF \E i \in 1..Len(sessions) : sessions[i].id = sessionId
    THEN CHOOSE i \in 1..Len(sessions) :
            /\ sessions[i].id = sessionId
            /\ \A j \in 1..(i - 1) : sessions[j].id # sessionId
    ELSE 0

\* Without the ownership test.
ForeignCampusMut(session, c) == FALSE

\* sessionFound.campus !== req.session.user.campus
ForeignCampus(session, c) == session.campus # user[c].campus

NotFound == [error |-> "Session not found."]
Forbidden == [error |-> "Forbidden - Session belongs to another campus."]

\* seq.splice(i, 1)
Splice(seq, i) == [k \in 1..(Len(seq) - 1) |-> IF k < i THEN seq[k] ELSE seq[k + 1]]

\* Without the cascade: the submissions are kept.
RemoveSessionMut(db, sessionIndex, sessionId) ==
    [sessions |-> Splice(db.sessions, sessionIndex), submissions |-> db.submissions]

\* Lines 191-194: the session at sessionIndex is spliced out and the
\* submissions of sessionId are filtered out.
RemoveSession(db, sessionIndex, sessionId) ==
    [sessions |-> Splice(db.sessions, sessionIndex),
     submissions |-> SelectSeq(db.submissions, LAMBDA sub : sub.sessionId # sessionId)]

\* DELETE /api/sessions/:id
DeleteSession(c, sessionId, w) ==
    LET req == [NoReq EXCEPT !.id = sessionId]
        sessionIndex == findIndex(dbData.sessions, sessionId)
    IN
    /\ running
    /\ IF ~isAuthenticated(c) THEN Reply(c, "delete", req, 401, Unauthorized)
       ELSE IF sessionIndex = 0 THEN Reply(c, "delete", req, 404, NotFound)
       ELSE IF ForeignCampus(dbData.sessions[sessionIndex], c)
       THEN Reply(c, "delete", req, 403, Forbidden)
       ELSE /\ Commit(c, "delete", req, RemoveSession(dbData, sessionIndex, sessionId),
                      [message |-> "Session deleted successfully."], w)
            /\ UNCHANGED issued

\* ------------------------------------------------------- juries and students
\* Only the first entry equal to name is taken out.
WithoutMut(list, name) ==
    IF \A k \in 1..Len(list) : list[k] # name THEN list
    ELSE LET first == CHOOSE k \in 1..Len(list) :
                        list[k] = name /\ \A j \in 1..(k - 1) : list[j] # name
         IN  [k \in 1..(Len(list) - 1) |-> IF k < first THEN list[k] ELSE list[k + 1]]

\* list.filter((x) => x !== name)
Without(list, name) == SelectSeq(list, LAMBDA x : x # name)

\* The four list routes differ in the field they change and in their texts.
\* POST /api/sessions/:id/juries
AddJury(c, sessionId, juryName, w) ==
    LET req == [NoReq EXCEPT !.id = sessionId, !.juryName = juryName]
        i == findIndex(dbData.sessions, sessionId)
    IN
    /\ running
    /\ IF ~isAuthenticated(c) THEN Reply(c, "addJury", req, 401, Unauthorized)
       ELSE IF Falsy(juryName)
       THEN Reply(c, "addJury", req, 400, [error |-> "Jury name is required."])
       ELSE IF i = 0 THEN Reply(c, "addJury", req, 404, NotFound)
       ELSE IF ForeignCampus(dbData.sessions[i], c) THEN Reply(c, "addJury", req, 403, Forbidden)
       ELSE LET db == [dbData EXCEPT !.sessions[i].juries = Append(@, juryName)] IN
            /\ Commit(c, "addJury", req, db,
                      [message |-> "Jury added successfully.", session |-> db.sessions[i]], w)
            /\ UNCHANGED issued

\* DELETE /api/sessions/:id/juries
RemoveJury(c, sessionId, juryName, w) ==
    LET req == [NoReq EXCEPT !.id = sessionId, !.juryName = juryName]
        i == findIndex(dbData.sessions, sessionId)
    IN
    /\ running
    /\ IF ~isAuthenticated(c) THEN Reply(c, "removeJury", req, 401, Unauthorized)
       ELSE IF i = 0 THEN Reply(c, "removeJury", req, 404, NotFound)
       ELSE IF ForeignCampus(dbData.sessions[i], c)
       THEN Reply(c, "removeJury", req, 403, Forbidden)
       ELSE LET db == [dbData EXCEPT !.sessions[i].juries = Without(@, juryName)] IN
            /\ Commit(c, "removeJury", req, db,
                      [message |-> "Jury deleted successfully.", session |-> db.sessions[i]], w)
            /\ UNCHANGED issued

\* POST /api/sessions/:id/students
AddStudent(c, sessionId, studentName, w) ==
    LET req == [NoReq EXCEPT !.id = sessionId, !.studentName = studentName]
        i == findIndex(dbData.sessions, sessionId)
    IN
    /\ running
    /\ IF ~isAuthenticated(c) THEN Reply(c, "addStudent", req, 401, Unauthorized)
       ELSE IF Falsy(studentName)
       THEN Reply(c, "addStudent", req, 400, [error |-> "Student name is required."])
       ELSE IF i = 0 THEN Reply(c, "addStudent", req, 404, NotFound)
       ELSE IF ForeignCampus(dbData.sessions[i], c)
       THEN Reply(c, "addStudent", req, 403, Forbidden)
       ELSE LET db == [dbData EXCEPT !.sessions[i].students = Append(@, studentName)] IN
            /\ Commit(c, "addStudent", req, db,
                      [message |-> "Student added successfully.", session |-> db.sessions[i]], w)
            /\ UNCHANGED issued

\* The student's submissions in the session go with the student.
RemoveStudentMut(c, sessionId, studentName, w) ==
    LET req == [NoReq EXCEPT !.id = sessionId, !.studentName = studentName]
        i == findIndex(dbData.sessions, sessionId)
    IN
    /\ running
    /\ IF ~isAuthenticated(c) THEN Reply(c, "removeStudent", req, 401, Unauthorized)
       ELSE IF i = 0 THEN Reply(c, "removeStudent", req, 404, NotFound)
       ELSE IF ForeignCampus(dbData.sessions[i], c)
       THEN Reply(c, "removeStudent", req, 403, Forbidden)
       ELSE LET db == [sessions |->
                          [dbData.sessions EXCEPT ![i].students = Without(@, studentName)],
                       submissions |->
                          SelectSeq(dbData.submissions,
                                    LAMBDA sub : \/ sub.sessionId # sessionId
                                                 \/ sub.studentName # studentName)]
            IN
            /\ Commit(c, "removeStudent", req, db,
                      [message |-> "Student deleted successfully.",
                       session |-> db.sessions[i]], w)
            /\ UNCHANGED issued

\* DELETE /api/sessions/:id/students
RemoveStudent(c, sessionId, studentName, w) ==
    LET req == [NoReq EXCEPT !.id = sessionId, !.studentName = studentName]
        i == findIndex(dbData.sessions, sessionId)
    IN
    /\ running
    /\ IF ~isAuthenticated(c) THEN Reply(c, "removeStudent", req, 401, Unauthorized)
       ELSE IF i = 0 THEN Reply(c, "removeStudent", req, 404, NotFound)
       ELSE IF ForeignCampus(dbData.sessions[i], c)
       THEN Reply(c, "removeStudent", req, 403, Forbidden)
       ELSE LET db == [dbData EXCEPT !.sessions[i].students = Without(@, studentName)] IN
            /\ Commit(c, "removeStudent", req, db,
                      [message |-> "Student deleted successfully.",
                       session |-> db.sessions[i]], w)
            /\ UNCHANGED issued

\* ------------------------------------------------------------- evaluations
\* list.includes(x)
Includes(list, x) == \E k \in 1..Len(list) : list[k] = x

\* Without the ownership test.
SubmitCheckAnyCampus(db, campus, sessionId, juryName, studentName) ==
    IF \A i \in 1..Len(db.sessions) : db.sessions[i].id # sessionId THEN 400
    ELSE LET s == db.sessions[CHOOSE i \in 1..Len(db.sessions) : db.sessions[i].id = sessionId]
         IN  IF \A k \in 1..Len(s.juries) : s.juries[k] # juryName THEN 400
             ELSE IF \A k \in 1..Len(s.students) : s.students[k] # studentName THEN 400
             ELSE 200

\* Without the jury membership test.
SubmitCheckMut(db, campus, sessionId, juryName, studentName) ==
    IF \A i \in 1..Len(db.sessions) : db.sessions[i].id # sessionId THEN 400
    ELSE LET s == db.sessions[CHOOSE i \in 1..Len(db.sessions) : db.sessions[i].id = sessionId]
         IN  IF s.campus # campus THEN 403
             ELSE IF \A k \in 1..Len(s.students) : s.students[k] # studentName THEN 400
             ELSE 200

\* Lines 346-362: the status POST /api/submitEvaluation answers with before it
\* builds the submission (200: every check passed).
SubmitCheck(db, campus, sessionId, juryName, studentName) ==
    LET i == findIndex(db.sessions, sessionId) IN
    IF i = 0 THEN 400
    ELSE IF db.sessions[i].campus # campus THEN 403
    ELSE IF ~Includes(db.sessions[i].juries, juryName) THEN 400
    ELSE IF ~Includes(db.sessions[i].students, studentName) THEN 400
    ELSE 200

SubmitError(db, campus, sessionId, juryName, studentName) ==
    LET i == findIndex(db.sessions, sessionId) IN
    IF i = 0 THEN [error |-> "Session does not exist."]
    ELSE IF db.sessions[i].campus # campus THEN Forbidden
    ELSE IF ~Includes(db.sessions[i].juries, juryName)
    THEN [error |-> "Jury does not exist in this session."]
    ELSE [error |-> "Student does not exist in this session."]

\* Lines 364-387
NewSubmission(sessionId, juryName, studentName, payload) ==
    [sessionId |-> sessionId, juryName |-> juryName, studentName |-> studentName,
     scores |-> [k \in Criteria |-> parseFloat(PayloadScores(payload)[k])],
     studentComments |->
        IF Falsy(PayloadComments(payload)) THEN "" ELSE PayloadComments(payload)]

\* POST /api/submitEvaluation
SubmitEvaluation(c, sessionId, juryName, studentName, payload, w) ==
    LET req == [NoReq EXCEPT !.id = sessionId, !.juryName = juryName,
                             !.studentName = studentName, !.payload = payload]
        status == SubmitCheck(dbData, user[c].campus, sessionId, juryName, studentName)
    IN
    /\ running
    /\ IF ~isAuthenticated(c) THEN Reply(c, "submit", req, 401, Unauthorized)
       ELSE IF status # 200
       THEN Reply(c, "submit", req, status,
                  SubmitError(dbData, user[c].campus, sessionId, juryName, studentName))
       ELSE /\ Commit(c, "submit", req,
                      [dbData EXCEPT !.submissions =
                          Append(@, NewSubmission(sessionId, juryName, studentName, payload))],
                      [message |-> "Evaluation submitted successfully!"], w)
            /\ UNCHANGED issued

\* ------------------------------------------------------------------ results
\* a + b on JS numbers: NaN absorbs, null counts as 0.
JsAdd(a, b) ==
    IF a.t = "NaN" \/ b.t = "NaN" THEN NaN
    ELSE Num(a.n * b.d + b.n * a.d, a.d * b.d)

\* a / count for a count >= 1.
JsDiv(a, count) == IF a.t = "NaN" THEN NaN ELSE Num(a.n, a.d * count)

Key(sub) == <<sub.sessionId, sub.studentName>>

\* Every submission opens an aggregate of its own.
AggregatesMut(raw, n) ==
    [j \in 1..n |->
        [sessionId |-> raw[j].sessionId, studentName |-> raw[j].studentName,
         sums |-> raw[j].scores, count |-> 1]]

\* Lines 406-457: the aggregates object after the first n raw submissions, as
\* the sequence of its values in key insertion order.
RECURSIVE Aggregates(_, _)
Aggregates(raw, n) ==
    IF n = 0 THEN <<>>
    ELSE LET prev == Aggregates(raw, n - 1)
             sub == raw[n]
             zero == [sessionId |-> sub.sessionId, studentName |-> sub.studentName,
                      sums |-> [k \in Criteria |-> Num(0, 1)], count |-> 0]
             known == \E j \in 1..Len(prev) : Key(prev[j]) = Key(sub)
             all == IF known THEN prev ELSE Append(prev, zero)
         IN  [j \in 1..Len(all) |->
                IF Key(all[j]) = Key(sub)
                THEN [all[j] EXCEPT
                        !.sums = [k \in Criteria |-> JsAdd(all[j].sums[k], sub.scores[k])],
                        !.count = @ + 1]
                ELSE all[j]]

\* The count is copied into the row.
AveragesMut(aggs) ==
    [j \in 1..Len(aggs) |->
        [sessionId |-> aggs[j].sessionId, studentName |-> aggs[j].studentName,
         avg |-> [k \in Criteria |-> JsDiv(aggs[j].sums[k], aggs[j].count)],
         count |-> aggs[j].count]]

\* Lines 460-481
Averages(aggs) ==
    [j \in 1..Len(aggs) |->
        [sessionId |-> aggs[j].sessionId, studentName |-> aggs[j].studentName,
         avg |-> [k \in Criteria |-> JsDiv(aggs[j].sums[k], aggs[j].count)]]]

\* Without the campus filter: every stored submission is returned.
RawSubmissionsMut(db, campus) == db.submissions

\* Lines 401-403
RawSubmissions(db, campus) ==
    LET campusSessions == CampusSessions(db, campus)
        campusSessionIds == {campusSessions[i].id : i \in 1..Len(campusSessions)}
    IN  SelectSeq(db.submissions, LAMBDA sub : sub.sessionId \in campusSessionIds)

\* res.json(...): the body as the JSON the client receives (NaN is sent as null).
ResultsJson(rawSubmissions, aggregated, sessions) ==
    [rawSubmissions |-> Stringify([sessions |-> <<>>, submissions |-> rawSubmissions]).submissions,
     aggregated |->
        [j \in 1..Len(aggregated) |->
            [aggregated[j] EXCEPT !.avg = [k \in Criteria |-> StringifyScore(aggregated[j].avg[k])]]],
     sessions |-> sessions]

\* GET /api/resultsWithAverages
ResultsWithAverages(c) ==
    LET campus == user[c].campus
        rawSubmissions == RawSubmissions(dbData, campus)
        aggregated == Averages(Aggregates(rawSubmissions, Len(rawSubmissions)))
    IN
    /\ running
    /\ IF ~isAuthenticated(c) THEN Reply(c, "results", NoReq, 401, Unauthorized)
       ELSE Reply(c, "results", NoReq, 200,
                  ResultsJson(rawSubmissions, aggregated, CampusSessions(dbData, campus)))

\* ------------------------------------------------------------ specification
\* Ids the clients send: the ids issued so far, and 0, which is never issued.
IdInputs == 0..issued

\* The bounds on what the clients ask for.
MayCreate == issued < MaxIds
MayGrow(list) == Len(list) < MaxListLen
MaySubmit == Len(dbData.submissions) < MaxSubmissions
Target(id) == dbData.sessions[findIndex(dbData.sessions, id)]
Known(id) == findIndex(dbData.sessions, id) # 0

\* The client reads the response; like the test agent, which awaits every
\* response, a client sends its next request after that.
Deliver ==
    /\ res # NoRes
    /\ res' = NoRes
    /\ UNCHANGED <<dbData, disk, user, running, issued, failures>>

\* No response is in flight.
Idle == res = NoRes

\* The requests the clients of a set send, with the outcomes writes may have.
Request(clients, writes) ==
    \/ \E c \in clients, u \in UsernameInputs, p \in PasswordInputs : Idle /\ Login(c, u, p)
    \/ \E c \in clients, err \in BOOLEAN : Idle /\ Logout(c, err)
    \/ \E c \in clients : Idle /\ CheckSession(c)
    \/ \E c \in clients : Idle /\ ListSessions(c)
    \/ \E c \in clients, name \in SessionNameInputs, w \in writes :
          Idle /\ MayCreate /\ CreateSession(c, name, w)
    \/ \E c \in clients, id \in IdInputs, w \in writes : Idle /\ DeleteSession(c, id, w)
    \/ \E c \in clients, id \in IdInputs, j \in JuryNameInputs, w \in writes :
          /\ Idle
          /\ Known(id) => MayGrow(Target(id).juries)
          /\ AddJury(c, id, j, w)
    \/ \E c \in clients, id \in IdInputs, j \in JuryNameInputs, w \in writes :
          Idle /\ RemoveJury(c, id, j, w)
    \/ \E c \in clients, id \in IdInputs, s \in StudentNameInputs, w \in writes :
          /\ Idle
          /\ Known(id) => MayGrow(Target(id).students)
          /\ AddStudent(c, id, s, w)
    \/ \E c \in clients, id \in IdInputs, s \in StudentNameInputs, w \in writes :
          Idle /\ RemoveStudent(c, id, s, w)
    \/ \E c \in clients, id \in IdInputs, j \in JuryNameInputs, s \in StudentNameInputs,
          p \in PayloadNames, w \in writes :
          Idle /\ MaySubmit /\ SubmitEvaluation(c, id, j, s, p, w)
    \/ \E c \in clients : Idle /\ ResultsWithAverages(c)

\* One client, a storage whose writes may fail, a process that may crash.
Next ==
    \/ Start(Writes)
    \/ Crash
    \/ Deliver
    \/ Request({"c1"}, Writes)

Spec == Init /\ [][Next]_vars

\* Two clients, a storage whose writes succeed, a process that may crash.
NextClients ==
    \/ Start({"ok"})
    \/ Crash
    \/ Deliver
    \/ Request(Clients, {"ok"})

SpecClients == Init /\ [][NextClients]_vars

\* Two clients that log in and out with every credential.
NextLogin ==
    \/ Start({"ok"})
    \/ Deliver
    \/ \E c \in Clients, u \in AllUsernameInputs, p \in AllPasswordInputs : Idle /\ Login(c, u, p)
    \/ \E c \in Clients, err \in BOOLEAN : Idle /\ Logout(c, err)
    \/ \E c \in Clients : Idle /\ CheckSession(c)

SpecLogin == Init /\ [][NextLogin]_vars

\* One client that logs in to either campus and builds sessions with one jury
\* and one student, submits up to MaxEvalSubmissions evaluations, and deletes.
NextEval ==
    \/ Start({"ok"})
    \/ Deliver
    \/ \E u \in {"Toulouse", "Paris"} : Idle /\ Login("c1", u, "demo")
    \/ Idle /\ MayCreate /\ CreateSession("c1", "C#22", "ok")
    \/ \E id \in IdInputs :
          Idle /\ (Known(id) => MayGrow(Target(id).juries)) /\ AddJury("c1", id, "Hugo", "ok")
    \/ \E id \in IdInputs :
          /\ Idle
          /\ Known(id) => MayGrow(Target(id).students)
          /\ AddStudent("c1", id, "Fabien", "ok")
    \/ \E id \in IdInputs, p \in PayloadNames :
          /\ Idle
          /\ Len(dbData.submissions) < MaxEvalSubmissions
          /\ SubmitEvaluation("c1", id, "Hugo", "Fabien", p, "ok")
    \/ \E id \in IdInputs : Idle /\ DeleteSession("c1", id, "ok")
    \/ Idle /\ ListSessions("c1")
    \/ Idle /\ ResultsWithAverages("c1")

SpecEval == Init /\ [][NextEval]_vars

\* One client that logs in to either campus, creates a session and puts names
\* on its lists, up to MaxNames each, and takes names off them.
NextLists ==
    \/ Start({"ok"})
    \/ Deliver
    \/ \E u \in {"Toulouse", "Paris"} : Idle /\ Login("c1", u, "demo")
    \/ Idle /\ issued < MaxListSessions /\ CreateSession("c1", "C#22", "ok")
    \/ \E id \in IdInputs, j \in ListNameInputs :
          /\ Idle
          /\ Known(id) => Len(Target(id).juries) < MaxNames
          /\ AddJury("c1", id, j, "ok")
    \/ \E id \in IdInputs, j \in ListNameInputs \cup {Undefined} :
          Idle /\ RemoveJury("c1", id, j, "ok")
    \/ \E id \in IdInputs, s \in ListNameInputs :
          /\ Idle
          /\ Known(id) => Len(Target(id).students) < MaxNames
          /\ AddStudent("c1", id, s, "ok")
    \/ \E id \in IdInputs, s \in ListNameInputs \cup {Undefined} :
          Idle /\ RemoveStudent("c1", id, s, "ok")

SpecLists == Init /\ [][NextLists]_vars

\* One client of one campus whose sessions have one jury and up to
\* MaxGroupStudents students, each evaluated any number of times, up to
\* MaxGroupSubmissions submissions in all.
NextGroups ==
    \/ Start({"ok"})
    \/ Deliver
    \/ Idle /\ Login("c1", "Toulouse", "demo")
    \/ Idle /\ MayCreate /\ CreateSession("c1", "C#22", "ok")
    \/ \E id \in IdInputs :
          Idle /\ (Known(id) => MayGrow(Target(id).juries)) /\ AddJury("c1", id, "Hugo", "ok")
    \/ \E id \in IdInputs, s \in ListNameInputs :
          /\ Idle
          /\ Known(id) => Len(Target(id).students) < MaxGroupStudents
          /\ AddStudent("c1", id, s, "ok")
    \/ \E id \in IdInputs, s \in ListNameInputs, p \in PayloadNames :
          /\ Idle
          /\ Len(dbData.submissions) < MaxGroupSubmissions
          /\ SubmitEvaluation("c1", id, "Hugo", s, p, "ok")
    \/ Idle /\ ResultsWithAverages("c1")

SpecGroups == Init /\ [][NextGroups]_vars

\* ================================================================= claims
GatedOps ==
    {"list", "create", "delete", "addJury", "removeJury", "addStudent", "removeStudent",
     "submit", "results"}

MutatingOps ==
    {"create", "delete", "addJury", "removeJury", "addStudent", "removeStudent", "submit"}

SessionTargetOps == MutatingOps \ {"create"}

\* The step is a request of one of ops, answered in the next state.
Answers(ops) == res = NoRes /\ res' # NoRes /\ res'.op \in ops

\* The store before and after the step is the same, in memory and on disk.
StoreUnchanged == dbData' = dbData /\ disk' = disk

\* The elements of seq at the indices of keep, in the order of seq.
Restrict(seq, keep) ==
    [k \in 1..Cardinality(keep) |->
        seq[CHOOSE i \in keep : Cardinality({j \in keep : j < i}) = k - 1]]

SessionIds(db) == {db.sessions[i].id : i \in 1..Len(db.sessions)}

SessionOf(db, id) == db.sessions[CHOOSE i \in 1..Len(db.sessions) : db.sessions[i].id = id]

\* C1: a gated operation of a client with no identity is answered 401
\* Unauthorized, whatever it sends, and leaves the store as it was.
C1_UnauthorizedFirst ==
    [][(Answers(GatedOps) /\ user[res'.client] = NoUser)
         => (/\ res'.status = 401
             /\ res'.body = [error |-> "Unauthorized"]
             /\ StoreUnchanged)]_vars

\* A delete of an existing session, owned by the campus of a logged-in client,
\* sent by a client with no identity, was answered 401.
C1_Witness ==
    /\ res.op = "delete" /\ res.status = 401
    /\ res.req.id \in SessionIds(dbData)
    /\ \E c \in Clients : user[c].campus = SessionOf(dbData, res.req.id).campus

\* A session-targeting mutation by a client of a campus other than the owner's.
ForeignRequest ==
    /\ Answers(SessionTargetOps)
    /\ user[res'.client] # NoUser
    /\ res'.req.id \in SessionIds(dbData)
    /\ SessionOf(dbData, res'.req.id).campus # user[res'.client].campus

\* C2 as stated: every mutating operation on a session of campus A by a client
\* of campus B # A is answered 403, with any request body.
C2_ForeignAlways403 == [][ForeignRequest => res'.status = 403]_vars

NameMissing(r) ==
    \/ r.op = "addJury" /\ r.req.juryName \in {"", Undefined}
    \/ r.op = "addStudent" /\ r.req.studentName \in {"", Undefined}

\* C2 amended: such an operation is answered 403, except addJury / addStudent
\* with an empty or absent name, which is answered 400; the store is unchanged.
C2_ForeignRejected ==
    [][ForeignRequest
         => (/\ res'.status = IF NameMissing(res') THEN 400 ELSE 403
             /\ StoreUnchanged)]_vars

\* A submit naming a jury and a student of another campus's session got 403.
C2_Witness ==
    /\ res.op = "submit" /\ res.status = 403
    /\ res.req.id \in SessionIds(dbData)
    /\ Includes(SessionOf(dbData, res.req.id).juries, res.req.juryName)
    /\ Includes(SessionOf(dbData, res.req.id).students, res.req.studentName)

\* C3: list by a client of campus B answers exactly the sessions of the store
\* whose campus is B, in store order, and changes nothing in the store.
C3_ListOwnCampus ==
    [][(Answers({"list"}) /\ user[res'.client] # NoUser)
         => LET B == user[res'.client].campus
                mine == {i \in 1..Len(dbData.sessions) : dbData.sessions[i].campus = B}
            IN  /\ res'.status = 200
                /\ res'.body.sessions = Restrict(dbData.sessions, mine)
                /\ \A k \in 1..Len(res'.body.sessions) : res'.body.sessions[k].campus = B
                /\ StoreUnchanged]_vars

\* A list answered one session while the store holds one of another campus too.
C3_Witness ==
    /\ res.op = "list" /\ res.status = 200
    /\ Len(res.body.sessions) = 1
    /\ Len(dbData.sessions) = 2
    /\ dbData.sessions[1].campus # dbData.sessions[2].campus

\* Every session and submission a 200 response names is in the store.
AnswersNameLiveSessions ==
    /\ (res.op = "list" /\ res.status = 200)
          => \A k \in 1..Len(res.body.sessions) :
                res.body.sessions[k].id \in SessionIds(dbData)
    /\ (res.op = "results" /\ res.status = 200)
          => /\ \A k \in 1..Len(res.body.sessions) :
                   res.body.sessions[k].id \in SessionIds(dbData)
             /\ \A k \in 1..Len(res.body.rawSubmissions) :
                   res.body.rawSubmissions[k].sessionId \in SessionIds(dbData)
             /\ \A k \in 1..Len(res.body.aggregated) :
                   res.body.aggregated[k].sessionId \in SessionIds(dbData)

\* C4: after a delete answered 200, the store holds no session with that id
\* and no submission of it, every other session and submission is kept, as it
\* was and in the same order, the id is never issued again, and no later list
\* or results answer names a session that is not in the store.
C4_DeleteCascades ==
    /\ []AnswersNameLiveSessions
    /\ [][Answers({"create"})
            => \A i \in 1..Len(dbData'.sessions) :
                  dbData'.sessions[i].id \in SessionIds(dbData) \/ dbData'.sessions[i].id > issued]_vars
    /\ [][(Answers({"delete"}) /\ res'.status = 200)
            => LET id == res'.req.id
                   otherSessions ==
                       {i \in 1..Len(dbData.sessions) : dbData.sessions[i].id # id}
                   otherSubmissions ==
                       {i \in 1..Len(dbData.submissions) : dbData.submissions[i].sessionId # id}
               IN  /\ id \in SessionIds(dbData)
                   /\ id \notin SessionIds(dbData')
                   /\ \A i \in 1..Len(dbData'.submissions) :
                         dbData'.submissions[i].sessionId # id
                   /\ dbData'.sessions = Restrict(dbData.sessions, otherSessions)
                   /\ dbData'.submissions = Restrict(dbData.submissions, otherSubmissions)]_vars

\* A delete was answered 200 and the other session and its two submissions remain.
C4_Witness ==
    /\ res.op = "delete" /\ res.status = 200
    /\ Len(dbData.sessions) = 1
    /\ Len(dbData.submissions) = 2
    /\ dbData.submissions[1] # dbData.submissions[2]

\* C5 as stated: a mutating operation that fails (400, 401, 403, 404, or the
\* 500 of a failed storage write) leaves the in-memory document as it was.
C5_FailureKeepsMemory ==
    [][(Answers(MutatingOps) /\ res'.status \in {400, 401, 403, 404, 500})
         => dbData' = dbData]_vars

\* C6 as stated: when a mutating operation is answered 200, the persisted
\* document equals the in-memory document.
C6_PersistedEqualsMemory ==
    [][(Answers(MutatingOps) /\ res'.status = 200)
         => (disk'.state = "file" /\ Parse(disk'.doc) = dbData')]_vars

NineCampuses ==
    {"Bordeaux", "Dijon", "Fréjus", "Laval", "Lille", "Paris", "Rennes", "Thonon", "Toulouse"}

\* C7: login is always answered 200; it succeeds iff the username is one of
\* the nine campuses and the password is "demo", then echoes the campus and
\* sets the identity {username, campus: username}; otherwise it answers
\* success:false with 'Invalid credentials.'.
C7_LoginIff ==
    [][Answers({"login"})
         => LET u == res'.req.username
                good == u \in NineCampuses /\ res'.req.password = "demo"
            IN  /\ res'.status = 200
                /\ res'.body.success = good
                /\ good => /\ res'.body.campus = u
                           /\ user'[res'.client] = [username |-> u, campus |-> u]
                /\ ~good => res'.body.message = "Invalid credentials."]_vars

\* A login as Fréjus succeeded.
C7_Witness ==
    /\ res.op = "login" /\ res.body.success
    /\ res.req.username = "Fréjus"
    /\ user[res.client].campus = "Fréjus"

\* C8: create by an authenticated client with an empty or absent name is
\* answered 400 and leaves sessions, submissions and the file as they were.
C8_EmptyNameRejected ==
    [][(/\ Answers({"create"})
        /\ user[res'.client] # NoUser
        /\ res'.req.name \in {"", Undefined})
         => (/\ res'.status = 400
             /\ res'.body = [error |-> "Session name is required."]
             /\ StoreUnchanged)]_vars

\* A create with an empty name got 400 while the store holds a session.
C8_Witness ==
    /\ res.op = "create" /\ res.status = 400 /\ res.req.name = ""
    /\ Len(dbData.sessions) > 0

UniqueIds ==
    \A i, j \in 1..Len(dbData.sessions) :
        dbData.sessions[i].id = dbData.sessions[j].id => i = j

\* C9: create with a non-empty name by a client of campus C is answered 200
\* unless the storage write fails; it appends exactly one session, with an id
\* no stored session has, the given name, campus C and empty lists; the
\* session answered is that record, list(C) returns it, and no two stored
\* sessions ever share an id.
C9_CreateFresh ==
    /\ []UniqueIds
    /\ [][(/\ Answers({"create"})
           /\ user[res'.client] # NoUser
           /\ res'.req.name \notin {"", Undefined})
            => LET C == user[res'.client].campus
                   n == Len(dbData.sessions)
                   new == dbData'.sessions[n + 1]
               IN  /\ res'.status \in {200, 500}
                   /\ res'.status = 500 => failures' > 0
                   /\ Len(dbData'.sessions) = n + 1
                   /\ SubSeq(dbData'.sessions, 1, n) = dbData.sessions
                   /\ dbData'.submissions = dbData.submissions
                   /\ new.id \notin SessionIds(dbData)
                   /\ new.name = res'.req.name
                   /\ new.campus = C
                   /\ new.juries = <<>> /\ new.students = <<>>
                   /\ res'.status = 200 => res'.body.session = new
                   /\ \E k \in 1..Len(CampusSessions(dbData', C)) :
                         CampusSessions(dbData', C)[k] = new]_vars

\* A create was answered 200 with the second session of the store.
C9_Witness ==
    /\ res.op = "create" /\ res.status = 200
    /\ Len(dbData.sessions) = 2
    /\ res.body.session = dbData.sessions[2]

\* The first applicable outcome of a submit by campus C, in the claim's order.
SubmitOutcome(db, C, r) ==
    IF r.id \notin SessionIds(db) THEN <<400, "Session does not exist.">>
    ELSE IF SessionOf(db, r.id).campus # C
    THEN <<403, "Forbidden - Session belongs to another campus.">>
    ELSE IF \A k \in 1..Len(SessionOf(db, r.id).juries) :
                SessionOf(db, r.id).juries[k] # r.juryName
    THEN <<400, "Jury does not exist in this session.">>
    ELSE IF \A k \in 1..Len(SessionOf(db, r.id).students) :
                SessionOf(db, r.id).students[k] # r.studentName
    THEN <<400, "Student does not exist in this session.">>
    ELSE <<200, "Evaluation submitted successfully!">>

\* C10: submit by a client of campus C is answered with the first applicable
\* outcome of: session unknown 400, session of another campus 403, jury not
\* listed 400, student not listed 400; a failed submit appends nothing, and a
\* submission is appended (one, for that session, jury and student) only when
\* none applies.
C10_SubmitChecks ==
    [][(Answers({"submit"}) /\ user[res'.client] # NoUser)
         => LET want == SubmitOutcome(dbData, user[res'.client].campus, res'.req)
                n == Len(dbData.submissions)
            IN  IF want[1] # 200
                THEN /\ res'.status = want[1]
                     /\ res'.body = [error |-> want[2]]
                     /\ StoreUnchanged
                ELSE /\ res'.status \in {200, 500}
                     /\ res'.status = 500 => failures' > 0
                     /\ res'.status = 200 => res'.body = [message |-> want[2]]
                     /\ dbData'.sessions = dbData.sessions
                     /\ Len(dbData'.submissions) = n + 1
                     /\ SubSeq(dbData'.submissions, 1, n) = dbData.submissions
                     /\ dbData'.submissions[n + 1].sessionId = res'.req.id
                     /\ dbData'.submissions[n + 1].juryName = res'.req.juryName
                     /\ dbData'.submissions[n + 1].studentName = res'.req.studentName]_vars

\* A submit naming a listed student and an unlisted jury of the client's own
\* session was refused for the jury.
C10_Witness ==
    /\ res.op = "submit" /\ res.status = 400
    /\ res.body = [error |-> "Jury does not exist in this session."]
    /\ res.req.id \in SessionIds(dbData)
    /\ SessionOf(dbData, res.req.id).campus = user[res.client].campus
    /\ Includes(SessionOf(dbData, res.req.id).students, res.req.studentName)

\* The submissions of raw that have the key of row, in the order of raw.
Group(raw, row) ==
    Restrict(raw, {i \in 1..Len(raw) : /\ raw[i].sessionId = row.sessionId
                                       /\ raw[i].studentName = row.studentName})

\* v1 + ... + vn for the values of criterion k in the first n of subs, as a
\* fraction <<numerator, denominator>>.
RECURSIVE SumOfScores(_, _, _)
SumOfScores(subs, k, n) ==
    IF n = 0 THEN <<0, 1>>
    ELSE LET s == SumOfScores(subs, k, n - 1)
             v == subs[n].scores[k]
         IN  <<s[1] * v.d + v.n * s[2], s[2] * v.d>>

\* avg is the mean of the values of criterion k in subs.
IsMean(avg, subs, k) ==
    LET s == SumOfScores(subs, k, Len(subs))
    IN  avg.t = "num" /\ avg.n * s[2] * Len(subs) = avg.d * s[1]

\* C11: in the answer of resultsWithAverages, each average of a row is the
\* mean of the values of that criterion in the row's group of raw submissions
\* when all of them are numbers, and in a group of one submission each average
\* equals that submission's score.
C11_AveragesAreMeans ==
    [][(Answers({"results"}) /\ res'.status = 200) =>
         \A j \in 1..Len(res'.body.aggregated) :
            LET row == res'.body.aggregated[j]
                group == Group(res'.body.rawSubmissions, row)
            IN  /\ Len(group) >= 1
                /\ \A k \in Criteria :
                      /\ (\A i \in 1..Len(group) : group[i].scores[k].t = "num")
                            => IsMean(row.avg[k], group, k)
                      /\ Len(group) = 1 => row.avg[k] = group[1].scores[k]]_vars

\* C12: resultsWithAverages by a client of campus C answers the sessions of C
\* as list does and, as raw submissions, the stored submissions of the
\* sessions of C, all of them and in store order; no raw submission and no
\* aggregated row is of a session of another campus, and the store is as it was.
C12_OwnSubmissionsOnly ==
    [][(Answers({"results"}) /\ user[res'.client] # NoUser)
         => LET C == user[res'.client].campus
                mine == {i \in 1..Len(dbData.sessions) : dbData.sessions[i].campus = C}
                owned == {dbData.sessions[i].id : i \in mine}
                own == {i \in 1..Len(dbData.submissions) :
                            dbData.submissions[i].sessionId \in owned}
                sent == Stringify([sessions |-> <<>>,
                                   submissions |-> Restrict(dbData.submissions, own)])
            IN  /\ res'.status = 200
                /\ res'.body.sessions = Restrict(dbData.sessions, mine)
                /\ res'.body.rawSubmissions = sent.submissions
                /\ \A k \in 1..Len(res'.body.rawSubmissions) :
                      res'.body.rawSubmissions[k].sessionId \in owned
                /\ \A j \in 1..Len(res'.body.aggregated) :
                      res'.body.aggregated[j].sessionId \in owned
                /\ StoreUnchanged]_vars

\* Results answered the first and the third stored submission: the second is
\* of a session of the other campus.
C12_Witness ==
    /\ res.op = "results" /\ res.status = 200
    /\ Len(dbData.submissions) = 3
    /\ Len(res.body.rawSubmissions) = 2
    /\ res.body.rawSubmissions[1].sessionId # dbData.submissions[2].sessionId
    /\ Len(res.body.sessions) = 1
    /\ Len(dbData.sessions) = 2

\* C13: removeJury / removeStudent by a client of the campus that owns the
\* session is answered 200 (500 only when the write to storage failed) and
\* leaves the list as it was without every entry equal to the name, the other
\* entries in their order: a list without the name is unchanged, and the list
\* left holds the name no more, so a second removal changes nothing.  The rest
\* of the session, the other sessions and the submissions are as they were.
C13_RemoveAllMatches ==
    [][(/\ Answers({"removeJury", "removeStudent"})
        /\ user[res'.client] # NoUser
        /\ res'.req.id \in SessionIds(dbData)
        /\ SessionOf(dbData, res'.req.id).campus = user[res'.client].campus)
         => LET jury == res'.op = "removeJury"
                name == IF jury THEN res'.req.juryName ELSE res'.req.studentName
                i == CHOOSE k \in 1..Len(dbData.sessions) :
                        dbData.sessions[k].id = res'.req.id
                before == IF jury THEN dbData.sessions[i].juries
                          ELSE dbData.sessions[i].students
                after == IF jury THEN dbData'.sessions[i].juries
                         ELSE dbData'.sessions[i].students
                kept == {k \in 1..Len(before) : before[k] # name}
            IN  /\ res'.status = 200 \/ (res'.status = 500 /\ failures' > 0)
                /\ Len(dbData'.sessions) = Len(dbData.sessions)
                /\ after = Restrict(before, kept)
                /\ (\A k \in 1..Len(before) : before[k] # name) => after = before
                /\ \A k \in 1..Len(after) : after[k] # name
                /\ dbData'.sessions[i] =
                      IF jury THEN [dbData.sessions[i] EXCEPT !.juries = after]
                      ELSE [dbData.sessions[i] EXCEPT !.students = after]
                /\ \A k \in 1..Len(dbData.sessions) :
                      k # i => dbData'.sessions[k] = dbData.sessions[k]
                /\ dbData'.submissions = dbData.submissions
                /\ res'.status = 200 => res'.body.session = dbData'.sessions[i]]_vars

\* Hugo was taken off a juries list that is left with Fabien alone, while the
\* students list still holds Hugo twice around Fabien.
C13_Witness ==
    /\ res.op = "removeJury" /\ res.status = 200
    /\ res.req.juryName = "Hugo"
    /\ res.body.session.juries = <<"Fabien">>
    /\ res.body.session.students = <<"Hugo", "Fabien", "Hugo">>

\* C14: a logout answered 302 leaves its client without identity; a client
\* without identity gets one only by a successful login of its own, and until
\* then checkSession answers it loggedIn false with campus null and every
\* gated operation answers it 401.  No logout changes the store or the
\* identity of another client.
C14_LoggedOutUntilLogin ==
    /\ [][Answers({"logout"})
            => /\ res'.status = 302 => user'[res'.client] = NoUser
               /\ \A o \in Clients \ {res'.client} : user'[o] = user[o]
               /\ StoreUnchanged]_vars
    /\ [][\A c \in Clients :
            (user[c] = NoUser /\ user'[c] # NoUser)
               => /\ Answers({"login"})
                  /\ res'.client = c
                  /\ res'.body.success]_vars
    /\ [][(Answers({"checkSession"}) /\ user[res'.client] = NoUser)
            => /\ res'.status = 200
               /\ res'.body = [loggedIn |-> FALSE, campus |-> "null"]]_vars
    /\ [][(Answers(GatedOps) /\ user[res'.client] = NoUser) => res'.status = 401]_vars

\* Client c1 was logged out while client c2 is logged in and the store holds
\* sessions of two campuses.
C14_Witness ==
    /\ res.op = "logout" /\ res.status = 302 /\ res.client = "c1"
    /\ user["c1"] = NoUser
    /\ user["c2"] # NoUser
    /\ Len(dbData.sessions) = 2
    /\ dbData.sessions[1].campus # dbData.sessions[2].campus

\* Every submission of db is of a session of db.
NoOrphan(db) ==
    \A i \in 1..Len(db.submissions) : db.submissions[i].sessionId \in SessionIds(db)

\* A session has one campus, in memory, on disk and from one state to the next.
SameCampus(sessions, others) ==
    \A i \in 1..Len(sessions), j \in 1..Len(others) :
        sessions[i].id = others[j].id => sessions[i].campus = others[j].campus

\* C15: in every reachable state each stored submission, in memory and in the
\* file, is of a session that is in the same document; the submission a submit
\* appends is of a session of the submitting client's campus, and a session
\* never changes its campus.
C15_NoOrphanSubmission ==
    /\ [](/\ NoOrphan(dbData)
          /\ disk.state = "file" => (NoOrphan(disk.doc) /\ SameCampus(dbData.sessions, disk.doc.sessions)))
    /\ [][(Answers({"submit"}) /\ res'.status \in {200, 500})
            => LET new == dbData'.submissions[Len(dbData'.submissions)]
               IN  /\ Len(dbData'.submissions) = Len(dbData.submissions) + 1
                   /\ new.sessionId = res'.req.id
                   /\ new.sessionId \in SessionIds(dbData)
                   /\ user[res'.client] # NoUser
                   /\ SessionOf(dbData, new.sessionId).campus = user[res'.client].campus]_vars
    /\ [][SameCampus(dbData.sessions, dbData'.sessions)]_vars

\* A submit was answered 200 while the store holds a session of each campus
\* and the other client is logged in to the campus that did not submit.
C15_Witness ==
    /\ res.op = "submit" /\ res.status = 200
    /\ Len(dbData.submissions) = 1
    /\ Len(dbData.sessions) = 2
    /\ dbData.sessions[1].campus # dbData.sessions[2].campus
    /\ \E c \in Clients \ {res.client} :
          /\ user[c] # NoUser
          /\ user[c].campus # SessionOf(dbData, dbData.submissions[1].sessionId).campus

\* The count fields of the first n of aggs, added up.
RECURSIVE SumOfCounts(_, _)
SumOfCounts(aggs, n) == IF n = 0 THEN 0 ELSE SumOfCounts(aggs, n - 1) + aggs[n].count

\* C16: in a 200 answer of resultsWithAverages the aggregated rows are, in
\* order, the (sessionId, studentName) pairs of the raw submissions at their
\* first occurrence, one row per pair; the aggregate behind each row counts
\* its group, which has at least one submission, and the counts add up to the
\* number of raw submissions.
C16_OneRowPerPair ==
    [][(Answers({"results"}) /\ res'.status = 200)
         => LET raw == res'.body.rawSubmissions
                rows == res'.body.aggregated
                firsts == {i \in 1..Len(raw) :
                              \A j \in 1..(i - 1) :
                                 \/ raw[j].sessionId # raw[i].sessionId
                                 \/ raw[j].studentName # raw[i].studentName}
                first == Restrict(raw, firsts)
                stored == RawSubmissions(dbData, user[res'.client].campus)
                aggs == Aggregates(stored, Len(stored))
            IN  /\ Len(rows) = Cardinality(firsts)
                /\ \A j \in 1..Len(rows) :
                      /\ rows[j].sessionId = first[j].sessionId
                      /\ rows[j].studentName = first[j].studentName
                /\ \A i, j \in 1..Len(rows) :
                      (/\ rows[i].sessionId = rows[j].sessionId
                       /\ rows[i].studentName = rows[j].studentName) => i = j
                /\ Len(aggs) = Len(rows)
                /\ \A j \in 1..Len(aggs) :
                      /\ aggs[j].sessionId = rows[j].sessionId
                      /\ aggs[j].studentName = rows[j].studentName
                      /\ aggs[j].count >= 1
                      /\ aggs[j].count = Len(Group(raw, rows[j]))
                /\ SumOfCounts(aggs, Len(aggs)) = Len(raw)]_vars

\* Results answered three raw submissions of one session in two rows: the
\* first and the third are of one student, the second of another.
C16_Witness ==
    /\ res.op = "results" /\ res.status = 200
    /\ Len(res.body.rawSubmissions) = 3
    /\ Len(res.body.aggregated) = 2
    /\ res.body.aggregated[1].sessionId = res.body.aggregated[2].sessionId
    /\ res.body.rawSubmissions[1].studentName = res.body.rawSubmissions[3].studentName
    /\ res.body.rawSubmissions[1].studentName # res.body.rawSubmissions[2].studentName
    /\ res.body.aggregated[1].studentName = res.body.rawSubmissions[1].studentName

\* C17 as stated: each row of a 200 answer of resultsWithAverages holds a
\* count, the number of raw submissions with the row's pair.
C17_RowsHoldCount ==
    [][(Answers({"results"}) /\ res'.status = 200)
         => \A j \in 1..Len(res'.body.aggregated) :
               LET row == res'.body.aggregated[j] IN
               /\ "count" \in DOMAIN row
               /\ row.count = Len(Group(res'.body.rawSubmissions, row))]_vars

\* C17: each row of a 200 answer of resultsWithAverages holds the sessionId,
\* the studentName and the 18 averages and nothing else; the number of
\* submissions with the row's pair is the count of the aggregate the row is
\* computed from, which the answer does not carry.
C17_RowsHoldNoCount ==
    [][(Answers({"results"}) /\ res'.status = 200)
         => LET stored == RawSubmissions(dbData, user[res'.client].campus)
                aggs == Aggregates(stored, Len(stored))
            IN  /\ Len(aggs) = Len(res'.body.aggregated)
                /\ \A j \in 1..Len(res'.body.aggregated) :
                      LET row == res'.body.aggregated[j] IN
                      /\ DOMAIN row = {"sessionId", "studentName", "avg"}
                      /\ DOMAIN row.avg = Criteria
                      /\ aggs[j].count = Len(Group(res'.body.rawSubmissions, row))]_vars

\* Results answered one row for two raw submissions of one student.
C17_Witness ==
    /\ res.op = "results" /\ res.status = 200
    /\ Len(res.body.rawSubmissions) = 2
    /\ Len(res.body.aggregated) = 1

\* The status the stated order gives the request answered in res' of a client
\* with an identity: the name first (addJury / addStudent only), then the id,
\* then the owner.
OrderedStatus ==
    IF NameMissing(res') THEN 400
    ELSE IF res'.req.id \notin SessionIds(dbData) THEN 404
    ELSE IF SessionOf(dbData, res'.req.id).campus # user[res'.client].campus THEN 403
    ELSE 200

\* C19: for a client with an identity, addJury / addStudent answer 400 to an
\* empty or absent name whatever the id, else 404 to an unknown id, else 403
\* to a session of another campus; delete, removeJury and removeStudent answer
\* 404 to an unknown id, else 403 to a session of another campus; a failure
\* names its cause and leaves the store as it was; after a delete answered 200
\* the id is unknown, so a second delete of it is answered 404.
C19_ErrorOrder ==
    /\ [][(/\ Answers({"addJury", "addStudent", "delete", "removeJury", "removeStudent"})
           /\ user[res'.client] # NoUser)
            => /\ res'.status = OrderedStatus \/ (res'.status = 500 /\ OrderedStatus = 200)
               /\ res'.status = 400
                     => /\ res'.body.error \in {"Jury name is required.",
                                                "Student name is required."}
                        /\ StoreUnchanged
               /\ res'.status = 404
                     => res'.body = [error |-> "Session not found."] /\ StoreUnchanged
               /\ res'.status = 403
                     => /\ res'.body = [error |-> "Forbidden - Session belongs to another campus."]
                        /\ StoreUnchanged]_vars
    /\ [][(Answers({"delete"}) /\ res'.status = 200)
            => /\ res'.req.id \notin SessionIds(dbData')
               /\ disk'.state = "file" => res'.req.id \notin SessionIds(disk'.doc)]_vars

\* A client with an identity asked to delete an id that was issued and is in
\* the store no more, and was answered 404.
C19_Witness ==
    /\ res.op = "delete" /\ res.status = 404
    /\ user[res.client] # NoUser
    /\ res.req.id \in 1..issued
    /\ res.req.id \notin SessionIds(dbData)
    /\ Len(dbData.sessions) = 1
    /\ dbData.sessions[1].campus # user[res.client].campus

\* Every operation but delete.
KeepingOps == (GatedOps \cup {"login", "logout", "checkSession"}) \ {"delete"}

\* C20: no operation but delete removes or changes a stored submission (submit
\* appends one, the others leave the submissions as they are), and a 200
\* answer of resultsWithAverages carries every stored submission of the
\* caller's sessions and a row for its student, whether or not the session's
\* lists still hold the submission's jury and student.
C20_SubmissionsOutliveNames ==
    /\ [][Answers(KeepingOps)
            => /\ Len(dbData'.submissions) >= Len(dbData.submissions)
               /\ \A i \in 1..Len(dbData.submissions) :
                     dbData'.submissions[i] = dbData.submissions[i]
               /\ res'.op # "submit" => dbData'.submissions = dbData.submissions]_vars
    /\ [][(Answers({"results"}) /\ res'.status = 200)
            => \A i \in 1..Len(dbData.submissions) :
                  LET sub == dbData.submissions[i]
                      sent == [sub EXCEPT !.scores = [k \in Criteria |-> StringifyScore(sub.scores[k])]]
                  IN  (/\ sub.sessionId \in SessionIds(dbData)
                       /\ SessionOf(dbData, sub.sessionId).campus = user[res'.client].campus)
                        => /\ \E k \in 1..Len(res'.body.rawSubmissions) :
                                 res'.body.rawSubmissions[k] = sent
                           /\ \E j \in 1..Len(res'.body.aggregated) :
                                 /\ res'.body.aggregated[j].sessionId = sub.sessionId
                                 /\ res'.body.aggregated[j].studentName = sub.studentName]_vars

\* Results answered a submission, and a row for its student, whose jury and
\* student are on the lists of its session no more.
C20_Witness ==
    /\ res.op = "results" /\ res.status = 200
    /\ Len(res.body.rawSubmissions) = 1
    /\ Len(res.body.aggregated) = 1
    /\ res.body.aggregated[1].studentName = res.body.rawSubmissions[1].studentName
    /\ LET sub == res.body.rawSubmissions[1]
           session == SessionOf(dbData, sub.sessionId)
       IN  /\ ~Includes(session.juries, sub.juryName)
           /\ ~Includes(session.students, sub.studentName)

\* C21 as stated: a submit that is answered 200 appends, for each score field
\* that does not parse as a number, the not-a-number value, to the document in
\* memory and to the one in the file; and in every 200 answer of
\* resultsWithAverages, before or after a restart, the average of a criterion
\* is not-a-number in each row whose group holds a stored submission with a
\* score for it that is not a number.
C21_NaNKept ==
    /\ [][(Answers({"submit"}) /\ res'.status = 200)
            => LET new == dbData'.submissions[Len(dbData'.submissions)]
                   kept == disk'.doc.submissions[Len(disk'.doc.submissions)]
               IN  /\ Len(dbData'.submissions) = Len(dbData.submissions) + 1
                   /\ disk'.state = "file"
                   /\ Len(disk'.doc.submissions) = Len(dbData'.submissions)
                   /\ \A k \in Criteria :
                         parseFloat(PayloadScores(res'.req.payload)[k]) = NaN
                            => new.scores[k] = NaN /\ kept.scores[k] = NaN]_vars
    /\ [][(Answers({"results"}) /\ res'.status = 200)
            => \A i \in 1..Len(dbData.submissions), j \in 1..Len(res'.body.aggregated),
                  k \in Criteria :
                  LET sub == dbData.submissions[i]
                      row == res'.body.aggregated[j]
                  IN  (/\ sub.sessionId = row.sessionId
                       /\ sub.studentName = row.studentName
                       /\ sub.scores[k].t # "num")
                        => row.avg[k] = NaN]_vars

\* Every client has no identity or one whose campus is its username, a campus
\* of the fixed set.
IdentitiesAreCampuses ==
    \A c \in Clients :
        \/ user[c] = NoUser
        \/ /\ user[c].campus = user[c].username
           /\ user[c].campus \in NineCampuses

\* C22: a login that fails leaves the identity of its client as it was, so a
\* client logged in as campus A stays A; a login that succeeds as campus B
\* makes the identity {username: B, campus: B}, whatever it was; no login
\* changes the identity of another client or the store; and in every reachable
\* state each identity has its campus equal to its username and in the fixed
\* campus set.
C22_LoginKeepsOrReplaces ==
    /\ []IdentitiesAreCampuses
    /\ [][Answers({"login"})
            => LET c == res'.client
                   B == res'.req.username
                   good == B \in NineCampuses /\ res'.req.password = "demo"
               IN  /\ res'.body.success = good
                   /\ ~good => user'[c] = user[c]
                   /\ good => user'[c] = [username |-> B, campus |-> B]
                   /\ \A o \in Clients \ {c} : user'[o] = user[o]
                   /\ StoreUnchanged]_vars

\* A client logged in as one campus, whose session is in the store, tried
\* another campus with a wrong password and is still what it was.
C22_Witness ==
    /\ res.op = "login" /\ ~res.body.success
    /\ res.req.username \in NineCampuses
    /\ user[res.client] # NoUser
    /\ user[res.client].campus # res.req.username
    /\ \E i \in 1..Len(dbData.sessions) : dbData.sessions[i].campus = user[res.client].campus

============================================================================
